---- MODULE Spec2Model ----
(***************************************************************************)
(* Model of the stock checker: src/main.py (probe, state file, notifier,   *)
(* orchestrator) and src/serve.py (the /check route).                      *)
(*                                                                         *)
(* One invocation of /check is a frame p with its own program counter and  *)
(* locals.  Nothing in serve.py or main.py stops a second invocation from  *)
(* starting while another is running, so frames interleave freely.  The    *)
(* state file is the only state shared between invocations.  Everything    *)
(* the environment decides (does a browser step fail, what does the page   *)
(* show, does the SMTP session fail, does the file operation fail) is an   *)
(* input chosen with \E in the step that asks for it.                      *)
(*                                                                         *)
(* History is recorded for one invocation at a time, the watched one; any  *)
(* invocation can be the watched one.                                      *)
(***************************************************************************)
EXTENDS Integers, Sequences, FiniteSets, TLC

\* ---------------------------------------------------------------- bounds
\* Number of invocation frames the HTTP server can hold at once.
MaxInvocations == 2

\* The most characters a write() call that stops short stores.
MaxShort == 1

\* The most write() calls that stop short in one run of the server.
MaxShortCalls == 1

Procs == 1..MaxInvocations

\* ---------------------------------------------------------------- texts
\* Python strings are sequences of characters.
InStock == <<"i", "n", "-", "s", "t", "o", "c", "k">>

OutOfStock == <<"o", "u", "t", "-", "o", "f", "-", "s", "t", "o", "c", "k">>

\* The characters for which str.isspace() is true.  Those a TLA+ string
\* cannot write are named by their Python escape.
Whitespace ==
    {" ", "\t", "\n", "\r", "\f", "\\x0b", "\\x1c", "\\x1d", "\\x1e", "\\x1f",
     "\\x85", "\\xa0", "\\u1680", "\\u2000", "\\u2001", "\\u2002", "\\u2003",
     "\\u2004", "\\u2005", "\\u2006", "\\u2007", "\\u2008", "\\u2009",
     "\\u200a", "\\u2028", "\\u2029", "\\u202f", "\\u205f", "\\u3000"}

\* Reading in text mode with universal newlines: "\r\n" and a lone "\r"
\* become "\n".
RECURSIVE Translate(_)
Translate(s) ==
    IF s = <<>> THEN <<>>
    ELSE IF Head(s) = "\r"
         THEN IF Len(s) >= 2 /\ s[2] = "\n"
              THEN <<"\n">> \o Translate(Tail(Tail(s)))
              ELSE <<"\n">> \o Translate(Tail(s))
    ELSE <<Head(s)>> \o Translate(Tail(s))

RECURSIVE LStrip(_)
LStrip(s) ==
    IF s /= <<>> /\ Head(s) \in Whitespace THEN LStrip(Tail(s)) ELSE s

RECURSIVE RStrip(_)
RStrip(s) ==
    IF s /= <<>> /\ s[Len(s)] \in Whitespace
    THEN RStrip(SubSeq(s, 1, Len(s) - 1))
    ELSE s

\* str.strip()
Strip(s) == RStrip(LStrip(s))

\* A Python value held by current_status: a str or None.
None == [tag |-> "none", s |-> <<>>]

Str(s) == [tag |-> "str", s |-> s]

\* Mutant: the branch on the probe result is always taken.
Truthy_always(v) == TRUE

\* Truthiness of `if current_status:`.
Truthy(v) == v.tag = "str" /\ v.s /= <<>>

SuccessMsg == "Function executed successfully."

FailureMsg == "Function failed with an error: ..."

NoResult == "(not returned)"

\* ---------------------------------------------------------------- state file
\* STATE_FILE on disk: absent, or present with some content.
AbsentFile == [exists |-> FALSE, content |-> <<>>]

FileWith(s) == [exists |-> TRUE, content |-> s]

\* How an exception leaves a browser-automation call.
StepOutcome == {"ok", "PWTimeout", "Exception"}

\* Steps of the SMTP session that can fail.
SendOutcome == {"ok", "connect", "starttls", "login", "send_message"}

\* open(STATE_FILE, "w"): creates or truncates the file, or fails and
\* leaves it untouched.
open_w(f, ok) ==
    [raised |-> ~ok, file |-> IF ok THEN FileWith(<<>>) ELSE f]

\* The NUL character, by its Python escape.
NUL == "\\x00"

RECURSIVE Nuls(_)
Nuls(n) == IF n <= 0 THEN <<>> ELSE <<NUL>> \o Nuls(n - 1)

\* write() of text at offset pos of a file that holds old.  The offset is
\* the descriptor's own: when the file has become shorter than pos
\* (another invocation has truncated it since) the gap reads as NUL
\* characters; what lies beyond the text stays.
WriteAt(old, pos, text) ==
    SubSeq(old, 1, IF pos < Len(old) THEN pos ELSE Len(old))
        \o Nuls(pos - Len(old))
        \o text
        \o SubSeq(old, pos + Len(text) + 1, Len(old))

\* f.write(status) on the text file just opened: the text is kept in the
\* buffer and nothing reaches the file yet.  A non-str raises TypeError.
f_write(status) ==
    [raised |-> status.tag /= "str", pending |-> status.s]

\* One write() system call of the flush: of the buffered text, n characters
\* from position pos on are stored at offset pos.
os_write(f, text, pos, n) ==
    FileWith(WriteAt(f.content, pos, SubSeq(text, pos + 1, pos + n)))

\* Mutant: the with block ends without an exception whatever happened.
f_close_quiet(failed, ok) == [raised |-> FALSE]

\* The end of the with block, once the flush is over.  failed: a write()
\* of the flush raised (the close of the buffer flushes once more, and the
\* exception is raised even if that flush stores the rest); ok: close()
\* of the descriptor returned.
f_close(failed, ok) == [raised |-> failed \/ ~ok]

\* The smallest buffer FileIO.readall allocates.
SmallChunk == 8192

\* f.read() on a text file comes down to FileIO.readall: the buffer is sized
\* from the size fstat reports, plus one, or SmallChunk when the file is
\* empty.
BufSize(f) == IF Len(f.content) > 0 THEN Len(f.content) + 1 ELSE SmallChunk

\* The size a full buffer is grown to.
new_buffersize(currentsize) ==
    LET addend == IF currentsize > 65536 THEN currentsize \div 8
                  ELSE 256 + currentsize
    IN  currentsize + (IF addend < SmallChunk THEN SmallChunk ELSE addend)

\* One read() system call at offset pos for at most n characters: what the
\* file holds there at that moment, nothing at or beyond its end.
os_read(f, pos, n) ==
    SubSeq(f.content, pos + 1,
           IF pos + n < Len(f.content) THEN pos + n ELSE Len(f.content))

\* Mutant: the default is returned only after a failed read; an absent file
\* reads as the empty text and a failed read propagates.
load_state_nodefault(f, readOk) ==
    [raised |-> f.exists /\ ~readOk,
     value  |-> IF f.exists /\ readOk THEN Strip(Translate(f.content)) ELSE <<>>]

\* Mutant: the file is not consulted.
load_state_forget(f, readOk) == [raised |-> FALSE, value |-> OutOfStock]

\* load_state(), given what the call saw: f is the file as os.path.exists
\* and f.read() gave it (f.content the text that f.read() returned), and
\* readOk says whether open and every read succeeded.
load_state(f, readOk) ==
    [raised |-> FALSE,
     value  |-> IF f.exists /\ readOk THEN Strip(Translate(f.content))
                ELSE OutOfStock]

\* Mutant: the SMTP session is not wrapped in try/except.
send_email_notification_uncaught(outcome) ==
    [raised |-> outcome /= "ok", sent |-> outcome = "ok"]

\* send_email_notification: every failure is caught inside.
send_email_notification(outcome) ==
    [raised |-> FALSE, sent |-> outcome = "ok"]

\* Mutant: the previous status is not consulted.
ShouldNotify_always(last, cur) == cur = Str(InStock)

\* The transition test of the orchestrator.
ShouldNotify(last, cur) == last = OutOfStock /\ cur = Str(InStock)

\* ---------------------------------------------------------------- the page
\* candidates = [...]: the number of trigger labels tried in order.
NumCandidates == 4

\* What one classification pass sees on the page, and the query (if any)
\* that raises instead of answering.
Signals ==
    [soldOut : BOOLEAN, atcCount : BOOLEAN, atcVisible : BOOLEAN,
     atcEnabled : BOOLEAN, undeliverable : BOOLEAN,
     failAt : {"none", "sold_out", "add_to_cart", "undeliverable"},
     kind : {"PWTimeout", "Exception"}]

\* The four signals of a page as one classification pass found them;
\* seen = FALSE before any pass has completed.
NoPage ==
    [seen |-> FALSE, soldOut |-> FALSE, atcCount |-> FALSE,
     atcVisible |-> FALSE, atcEnabled |-> FALSE, undeliverable |-> FALSE]

PageOf(sig) ==
    [seen |-> TRUE, soldOut |-> sig.soldOut, atcCount |-> sig.atcCount,
     atcVisible |-> sig.atcVisible, atcEnabled |-> sig.atcEnabled,
     undeliverable |-> sig.undeliverable]

\* Mutant: the positive signal is tested before the Sold Out alert.
Classification_positive_first(sig) ==
    IF sig.failAt /= "none" THEN [exc |-> sig.kind, ret |-> None]
    ELSE IF sig.atcCount /\ sig.atcVisible /\ sig.atcEnabled
         THEN [exc |-> "none", ret |-> Str(InStock)]
    ELSE [exc |-> "none", ret |-> Str(OutOfStock)]

\* The ordered heuristics of get_stock_status_playwright, first match wins.
\* exc /= "none" means the query reached at that point raised.
Classification(sig) ==
    IF sig.failAt = "sold_out" THEN [exc |-> sig.kind, ret |-> None]
    ELSE IF sig.soldOut THEN [exc |-> "none", ret |-> Str(OutOfStock)]
    ELSE IF sig.failAt = "add_to_cart" THEN [exc |-> sig.kind, ret |-> None]
    ELSE IF sig.atcCount /\ sig.atcVisible /\ sig.atcEnabled
         THEN [exc |-> "none", ret |-> Str(InStock)]
    ELSE IF sig.failAt = "undeliverable" THEN [exc |-> sig.kind, ret |-> None]
    ELSE IF sig.undeliverable THEN [exc |-> "none", ret |-> Str(OutOfStock)]
    ELSE [exc |-> "none", ret |-> Str(OutOfStock)]

\* Mutant: the outer except clause re-raises.
OuterExcept_reraise == [raised |-> TRUE, value |-> None]

\* The outer except clause: the exception stops there and the probe
\* returns None.
OuterExcept == [raised |-> FALSE, value |-> None]

\* Mutant: a failure of browser.close() is swallowed and the pending value
\* is returned.
ProbeReturn_swallow(pending, closeOk, exitOk) ==
    [raised |-> FALSE, value |-> pending]

\* Value returned by get_stock_status_playwright once the finally clause and
\* the exit of the sync_playwright block have run: an exception raised by
\* either replaces the pending return and is turned into None by the outer
\* except clause.
ProbeReturn(pending, closeOk, exitOk) ==
    IF closeOk /\ exitOk THEN [raised |-> FALSE, value |-> pending]
    ELSE OuterExcept

\* ---------------------------------------------------------------- state
VARIABLES
    file,            \* STATE_FILE
    pc,              \* per invocation: the statement it is at
    current_status,  \* local of buttermilk_checker_v2_function
    last_status,     \* local of buttermilk_checker_v2_function
    reader,          \* f.read() in progress: text read so far, buffer size
    writer,          \* flush in progress: characters stored so far
    shortCalls,      \* write() calls that have stopped short
    result,          \* string returned by buttermilk_checker_v2_function
    escaped,         \* an exception reached the top-level except clause
    exc,             \* exception in flight inside the page-flow try block
    ret,             \* value of the pending return of the page-flow try block
    browser,         \* "none", "launched", "closed" (browser.close() returned)
    cand,            \* index of the loop over candidates
    watch,           \* the watched invocation, 0 when there is none
    scope,           \* what is recorded: "cycle" or "probe"
    log,             \* what the watched invocation has called and seen
    hist             \* what happened since the last notification

vars == <<file, pc, current_status, last_status, reader, writer, result,
          escaped, exc, ret, browser, cand, watch, scope, shortCalls, log, hist>>

orchLocals == <<last_status, reader, writer, result, escaped>>

\* No read in progress.
NoReader == [buf |-> <<>>, bufsize |-> 0]

probeLocals == <<exc, ret, browser, cand>>

\* The record kept for the watched invocation.
\*   fileBefore      the file when the invocation began (kept until it loads)
\*   alone           no other invocation was in progress during this one
\*   attempts/clicks controls on which _open_pincode_modal called click(),
\*                   and those whose click() returned (0: "get my location")
\*   swallowed       a click or a wait failed inside a try block of
\*                   _open_pincode_modal
\*   keptFile        the file as save_state's failed open left it
\*   split           a write() of save_state's flush stopped short
\*   readAfter       the invocation whose write the first read came after
\*   laterProbes     the invocations whose probe returned after this one's
\*   doubled         this and another invocation both passed the
\*                   transition test before either opened the file
EmptyLog ==
    [fileBefore |-> AbsentFile, alone |-> TRUE,
     loads |-> 0, sends |-> 0, saves |-> 0, writes |-> 0,
     savedArg |-> None, probe |-> "running", failedAt |-> "none",
     failKind |-> "none", swallowed |-> FALSE,
     headingWaitTimedOut |-> FALSE,
     closeFailed |-> FALSE, screenshot |-> "none", page |-> NoPage,
     attempts |-> <<>>, clicks |-> <<>>,
     readFailed |-> FALSE, absentAtLoad |-> FALSE,
     sendOutcome |-> "none", writeOutcome |-> "none",
     prevNotified |-> FALSE, outSincePrev |-> FALSE, openFailedPrev |-> FALSE,
     overlapSincePrev |-> FALSE,
     keptFile |-> AbsentFile, split |-> FALSE,
     readAfter |-> 0, laterProbes |-> {}, doubled |-> FALSE]

\* What happened since the last notification:
\*   notified      a notification has been sent
\*   outSince      a probe has returned 'out-of-stock' since
\*   openFailed    save_state's open failed in the cycle that sent it
\*   overlapSince  two invocations have been in progress at once since
\*   lastWrite     the invocation in progress that last changed the file
EmptyHist ==
    [notified |-> FALSE, outSince |-> FALSE, openFailed |-> FALSE,
     overlapSince |-> FALSE, lastWrite |-> 0]

\* Only what a later notification can be compared with is kept: nothing
\* before the first notification, and nothing else once invocations
\* have overlapped.
Norm(h) ==
    IF ~h.notified THEN [EmptyHist EXCEPT !.lastWrite = h.lastWrite]
    ELSE IF h.overlapSince
         THEN [h EXCEPT !.outSince = FALSE, !.openFailed = FALSE]
    ELSE h

\* The state after the server has started: no invocation, the state file
\* absent or left by an earlier run.
Start ==
    /\ file \in {AbsentFile, FileWith(InStock), FileWith(OutOfStock)}
    /\ pc = [p \in Procs |-> "idle"]
    /\ current_status = [p \in Procs |-> None]
    /\ last_status = [p \in Procs |-> <<>>]
    /\ reader = [p \in Procs |-> NoReader]
    /\ writer = [p \in Procs |-> 0]
    /\ shortCalls = 0
    /\ result = [p \in Procs |-> NoResult]
    /\ escaped = [p \in Procs |-> FALSE]
    /\ exc = [p \in Procs |-> "none"]
    /\ ret = [p \in Procs |-> None]
    /\ browser = [p \in Procs |-> "none"]
    /\ cand = [p \in Procs |-> 0]
    /\ watch = 0
    /\ log = EmptyLog
    /\ hist = EmptyHist

\* The record covers the whole invocation.
Init == Start /\ scope = "cycle"

\* The record covers the probe, statement by statement, and ends when the
\* orchestrator takes the probe's result.
InitProbe == Start /\ scope = "probe"

Cycle == scope = "cycle"

\* The history since the last notification is kept when whole invocations
\* are recorded.
Remember(h) == hist' = IF Cycle THEN Norm(h) ELSE hist

\* The orchestrator goes on with the probe's result: what the probe's
\* frame held is gone, and a record that covers the probe ends.
TakeResult(p, l) ==
    /\ exc' = [exc EXCEPT ![p] = "none"]
    /\ ret' = [ret EXCEPT ![p] = None]
    /\ browser' = [browser EXCEPT ![p] = "none"]
    /\ watch' = IF watch = p /\ ~Cycle THEN 0 ELSE watch
    /\ log' = IF watch /= p THEN log ELSE IF Cycle THEN l ELSE EmptyLog

\* Another invocation is in progress.
OthersRunning(p) == \E q \in Procs \ {p} : pc[q] /= "idle"

\* The record is written by the watched invocation only.
Note(p, l) == log' = IF watch = p THEN l ELSE log

\* ---------------------------------------------------------------- serve.py
\* GET /check: the route calls buttermilk_checker_v2_function(None),
\* whether or not another invocation is in progress.
StartCheck(p) ==
    /\ pc[p] = "idle"
    /\ pc' = [pc EXCEPT ![p] = "launch"]
    /\ \E w \in (IF watch = 0 THEN {0, p} ELSE {watch}) :
        /\ watch' = w
        /\ log' = IF watch /= 0
                  THEN IF Cycle THEN [log EXCEPT !.alone = FALSE] ELSE log
                  ELSE IF w = p /\ Cycle
                       THEN [EmptyLog EXCEPT !.fileBefore = file,
                                             !.alone = ~OthersRunning(p)]
                  ELSE log
    /\ Remember([hist EXCEPT !.overlapSince = @ \/ OthersRunning(p)])
    /\ UNCHANGED <<file, current_status, orchLocals, probeLocals, scope,
                   shortCalls>>

Check(p) == StartCheck(p)

\* ---------------------------------------------------------------- the probe
\* The probe has returned r to the orchestrator (or raised into it);
\* `where` names the statement whose failure ended it, if any.  The page
\* and the locals of _open_pincode_modal are gone with it.
ProbeDone(p, r, where) ==
    /\ cand' = [cand EXCEPT ![p] = 0]
    /\ current_status' = [current_status EXCEPT ![p] = r.value]
    /\ escaped' = [escaped EXCEPT ![p] = r.raised]
    /\ pc' = [pc EXCEPT ![p] = IF r.raised THEN "return" ELSE "probed"]
    /\ log' = IF watch = p
              THEN [log EXCEPT
                      !.probe = IF r.raised THEN "raised" ELSE "returned",
                      !.closeFailed = (where = "close"),
                      !.failedAt = IF where /= "none" /\ @ = "none"
                                   THEN where ELSE @,
                      !.attempts = <<>>,
                      !.clicks = <<>>]
              ELSE IF watch /= 0 /\ Cycle /\ log.probe /= "running"
                   THEN [log EXCEPT !.laterProbes = @ \cup {p}]
              ELSE log
    /\ Remember([hist EXCEPT !.outSince =
                      @ \/ (~r.raised /\ r.value = Str(OutOfStock))])

\* An exception raised inside the page-flow try block and on its way to the
\* except clauses of get_stock_status_playwright: the frame of
\* _open_pincode_modal, if the exception left one, is gone.
Raise(p, kind, where) ==
    /\ exc' = [exc EXCEPT ![p] = kind]
    /\ pc' = [pc EXCEPT ![p] = "except"]
    /\ cand' = [cand EXCEPT ![p] = 0]
    /\ Note(p, [log EXCEPT !.failedAt = where, !.failKind = kind,
                           !.attempts = <<>>, !.clicks = <<>>])

\* sync_playwright() and p.chromium.launch(...).
Launch(p) ==
    /\ pc[p] = "launch"
    /\ \E ok \in BOOLEAN :
        IF ok
        THEN /\ browser' = [browser EXCEPT ![p] = "launched"]
             /\ pc' = [pc EXCEPT ![p] = "new_page"]
             /\ UNCHANGED <<current_status, escaped, hist, log, cand>>
        ELSE /\ ProbeDone(p, OuterExcept, "launch")
             /\ UNCHANGED browser
    /\ UNCHANGED <<file, last_status, reader, writer, result, exc, ret, watch,
                   scope, shortCalls>>

\* browser.new_page(): outside the page-flow try block, so a failure goes
\* straight to the outer except clause and the finally clause does not run.
NewPage(p) ==
    /\ pc[p] = "new_page"
    /\ \E ok \in BOOLEAN :
        IF ok
        THEN /\ pc' = [pc EXCEPT ![p] = "goto"]
             /\ UNCHANGED <<current_status, escaped, hist, log, cand>>
        ELSE ProbeDone(p, OuterExcept, "new_page")
    /\ UNCHANGED <<file, last_status, reader, writer, result, exc, ret,
                   browser, watch, scope, shortCalls>>

\* page.goto(url, wait_until="networkidle").
Goto(p) ==
    /\ pc[p] = "goto"
    /\ \E o \in StepOutcome :
        IF o = "ok"
        THEN /\ pc' = [pc EXCEPT ![p] = "open_modal"]
             /\ UNCHANGED <<exc, log, cand>>
        ELSE Raise(p, o, "goto")
    /\ UNCHANGED <<file, current_status, orchLocals, ret, browser, watch,
                   scope, shortCalls, hist>>

\* _open_pincode_modal: is the modal heading already visible?
ModalHeading(p) ==
    /\ pc[p] = "open_modal"
    /\ \E o \in {"visible", "hidden", "PWTimeout", "Exception"} :
        CASE o = "visible" ->
               /\ pc' = [pc EXCEPT ![p] = "enter_pincode"]
               /\ UNCHANGED <<exc, log, cand>>
          [] o = "hidden" ->
               /\ pc' = [pc EXCEPT ![p] = "candidates"]
               /\ cand' = [cand EXCEPT ![p] = 1]
               /\ UNCHANGED <<exc, log>>
          [] OTHER ->
               Raise(p, o, "open_modal")
    /\ UNCHANGED <<file, current_status, orchLocals, ret, browser, watch,
                   scope, shortCalls, hist>>

\* Mutant: the loop stops at the first label that matches an element,
\* whatever the click and the wait do.
TryCandidate_firstMatchOnly(p) ==
    /\ pc[p] = "candidates"
    /\ LET next == IF cand[p] < NumCandidates THEN "candidates" ELSE "get_location"
       IN \E count \in {"some", "zero", "PWTimeout", "Exception"},
             click \in StepOutcome, wait \in StepOutcome :
        CASE count = "zero" ->
               /\ pc' = [pc EXCEPT ![p] = next]
               /\ cand' = [cand EXCEPT ![p] = @ + 1]
               /\ UNCHANGED <<exc, log>>
          [] count = "some" ->
               /\ Note(p, [log EXCEPT
                             !.attempts = Append(@, cand[p]),
                             !.clicks = IF click = "ok"
                                        THEN Append(@, cand[p]) ELSE @,
                             !.swallowed =
                                 @ \/ click /= "ok" \/ wait /= "ok",
                             !.headingWaitTimedOut =
                                 @ \/ (click = "ok" /\ wait = "PWTimeout")])
               /\ pc' = [pc EXCEPT ![p] = "enter_pincode"]
               /\ UNCHANGED <<exc, cand>>
          [] OTHER ->
               Raise(p, count, "open_modal")
    /\ UNCHANGED <<file, current_status, orchLocals, ret, browser, watch,
                   scope, shortCalls, hist>>

\* One pass of `for txt in candidates`: count the matches; if there are
\* any, click the first and wait for the heading; a failure of the click or
\* of the wait is swallowed and the loop goes on.
TryCandidate(p) ==
    /\ pc[p] = "candidates"
    /\ LET next == IF cand[p] < NumCandidates THEN "candidates" ELSE "get_location"
       IN \E count \in {"some", "zero", "PWTimeout", "Exception"},
             click \in StepOutcome, wait \in StepOutcome :
        CASE count = "zero" ->
               /\ pc' = [pc EXCEPT ![p] = next]
               /\ cand' = [cand EXCEPT ![p] = @ + 1]
               /\ UNCHANGED <<exc, log>>
          [] count = "some" ->
               /\ Note(p, [log EXCEPT
                             !.attempts = Append(@, cand[p]),
                             !.clicks = IF click = "ok"
                                        THEN Append(@, cand[p]) ELSE @,
                             !.swallowed =
                                 @ \/ click /= "ok" \/ wait /= "ok",
                             !.headingWaitTimedOut =
                                 @ \/ (click = "ok" /\ wait = "PWTimeout")])
               /\ IF click = "ok" /\ wait = "ok"
                  THEN /\ pc' = [pc EXCEPT ![p] = "enter_pincode"]
                       /\ UNCHANGED cand
                  ELSE /\ pc' = [pc EXCEPT ![p] = next]
                       /\ cand' = [cand EXCEPT ![p] = @ + 1]
               /\ UNCHANGED exc
          [] OTHER ->
               Raise(p, count, "open_modal")
    /\ UNCHANGED <<file, current_status, orchLocals, ret, browser, watch,
                   scope, shortCalls, hist>>

\* The fallback: the "get my location" button, clicked and followed by a
\* 1.5 s pause; a failure of either is swallowed.
GetMyLocation(p) ==
    /\ pc[p] = "get_location"
    /\ \E count \in {"some", "zero", "PWTimeout", "Exception"},
          click \in StepOutcome, wait \in StepOutcome :
        CASE count = "zero" ->
               /\ pc' = [pc EXCEPT ![p] = "grace"]
               /\ UNCHANGED <<exc, log, cand>>
          [] count = "some" ->
               /\ pc' = [pc EXCEPT ![p] = "grace"]
               /\ Note(p, [log EXCEPT
                             !.attempts = Append(@, 0),
                             !.clicks = IF click = "ok"
                                        THEN Append(@, 0) ELSE @,
                             !.swallowed =
                                 @ \/ click /= "ok" \/ wait /= "ok"])
               /\ UNCHANGED <<exc, cand>>
          [] OTHER ->
               Raise(p, count, "open_modal")
    /\ UNCHANGED <<file, current_status, orchLocals, ret, browser, watch,
                   scope, shortCalls, hist>>

\* page.wait_for_timeout(500), the last statement of _open_pincode_modal.
GraceWait(p) ==
    /\ pc[p] = "grace"
    /\ \E o \in StepOutcome :
        IF o = "ok"
        THEN /\ pc' = [pc EXCEPT ![p] = "enter_pincode"]
             /\ UNCHANGED <<exc, log, cand>>
        ELSE Raise(p, o, "open_modal")
    /\ UNCHANGED <<file, current_status, orchLocals, ret, browser, watch,
                   scope, shortCalls, hist>>

\* _enter_pincode(page, PINCODE): nothing in it is caught.  The frame of
\* _open_pincode_modal is gone once the next statement runs.
EnterPincode(p) ==
    /\ pc[p] = "enter_pincode"
    /\ \E o \in StepOutcome :
        IF o = "ok"
        THEN /\ pc' = [pc EXCEPT ![p] = "classify"]
             /\ cand' = [cand EXCEPT ![p] = 0]
             /\ Note(p, [log EXCEPT !.attempts = <<>>, !.clicks = <<>>])
             /\ UNCHANGED exc
        ELSE Raise(p, o, "enter_pincode")
    /\ UNCHANGED <<file, current_status, orchLocals, ret, browser, watch,
                   scope, shortCalls, hist>>

\* The classification: either a return statement is reached (the finally
\* clause runs next with the value pending) or a query raises.
Classify(p) ==
    /\ pc[p] = "classify"
    /\ \E sig \in Signals :
        LET c == Classification(sig) IN
        IF c.exc = "none"
        THEN /\ ret' = [ret EXCEPT ![p] = c.ret]
             /\ pc' = [pc EXCEPT ![p] = "finally"]
             /\ Note(p, [log EXCEPT !.page = PageOf(sig)])
             /\ UNCHANGED <<exc, cand>>
        ELSE /\ Raise(p, c.exc, "classify")
             /\ UNCHANGED ret
    /\ UNCHANGED <<file, current_status, orchLocals, browser, watch, scope,
                   shortCalls, hist>>

\* The body shared by the two handlers: a best-effort screenshot whose own
\* failure is swallowed, then `return None`.
Handler(p) ==
    /\ \E shot \in {"saved", "failed"} :
        Note(p, [log EXCEPT !.screenshot = shot])
    /\ exc' = [exc EXCEPT ![p] = "none"]
    /\ ret' = [ret EXCEPT ![p] = None]
    /\ pc' = [pc EXCEPT ![p] = "finally"]
    /\ UNCHANGED <<file, current_status, orchLocals, browser, cand, watch,
                   scope, shortCalls, hist>>

\* Mutant: a timeout is answered with the conservative default.
ExceptPWTimeout_default(p) ==
    /\ pc[p] = "except"
    /\ exc[p] = "PWTimeout"
    /\ exc' = [exc EXCEPT ![p] = "none"]
    /\ ret' = [ret EXCEPT ![p] = Str(OutOfStock)]
    /\ pc' = [pc EXCEPT ![p] = "finally"]
    /\ UNCHANGED <<file, current_status, orchLocals, browser, cand, watch,
                   scope, shortCalls, log, hist>>

\* except PWTimeout as te:
ExceptPWTimeout(p) ==
    /\ pc[p] = "except"
    /\ exc[p] = "PWTimeout"
    /\ Handler(p)

\* except Exception as e:
ExceptException(p) ==
    /\ pc[p] = "except"
    /\ exc[p] = "Exception"
    /\ Handler(p)

\* finally: browser.close(); then the sync_playwright block exits and the
\* probe returns.
Finally(p) ==
    /\ pc[p] = "finally"
    /\ \E closeOk \in BOOLEAN, exitOk \in BOOLEAN :
        /\ browser' = [browser EXCEPT ![p] = IF closeOk THEN "closed" ELSE @]
        /\ ProbeDone(p, ProbeReturn(ret[p], closeOk, exitOk),
                     IF closeOk /\ exitOk THEN "none" ELSE "close")
    /\ UNCHANGED <<file, last_status, reader, writer, result, exc, ret, watch,
                   scope, shortCalls>>

\* The whole call current_status = get_stock_status_playwright(PRODUCT_URL)
\* as one step: the probe reads and writes nothing that another invocation
\* can see.  Either some statement of it fails and the outer except clause
\* answers, or the page flow reaches a return statement with a label.
ProbeResults == {None, Str(InStock), Str(OutOfStock)}

get_stock_status_playwright(p) ==
    /\ pc[p] = "launch"
    /\ \E v \in ProbeResults :
        IF v = None
        THEN ProbeDone(p, OuterExcept, "probe")
        ELSE ProbeDone(p, ProbeReturn(v, TRUE, TRUE), "none")
    /\ UNCHANGED <<file, last_status, reader, writer, result, exc, ret,
                   browser, watch, scope, shortCalls>>

\* ---------------------------------------------------------------- orchestrator
\* A helper raised into buttermilk_checker_v2_function: control goes to the
\* top-level except clause.
Escape(p) ==
    /\ escaped' = [escaped EXCEPT ![p] = TRUE]
    /\ pc' = [pc EXCEPT ![p] = "return"]

\* Mutant: the probe result is persisted as soon as load_state is entered,
\* before the notification decision.
LoadOpenWith_saveFirst(p, opens) ==
    /\ pc[p] = "probed"
    /\ Truthy(current_status[p])
    /\ \E ok \in opens :
        /\ last_status' = [last_status EXCEPT ![p] = load_state(file, ok).value]
        /\ TakeResult(p, [log EXCEPT !.loads = @ + 1,
                                     !.readFailed = file.exists /\ ~ok,
                                     !.absentAtLoad = ~file.exists,
                                     !.fileBefore = AbsentFile,
                                     !.saves = @ + 1,
                                     !.writes = @ + 1,
                                     !.savedArg = current_status[p],
                                     !.writeOutcome = "ok"])
    /\ file' = os_write(open_w(file, TRUE).file, current_status[p].s, 0,
                        Len(current_status[p].s))
    /\ pc' = [pc EXCEPT ![p] = "decide"]
    /\ UNCHANGED <<current_status, reader, writer, result, escaped, cand,
                   scope, shortCalls, hist>>

\* load_state() has its answer r.
Loaded(p, r) ==
    /\ reader' = [reader EXCEPT ![p] = NoReader]
    /\ IF r.raised
       THEN Escape(p) /\ UNCHANGED last_status
       ELSE /\ last_status' = [last_status EXCEPT ![p] = r.value]
            /\ pc' = [pc EXCEPT ![p] = "decide"]
            /\ UNCHANGED escaped

\* `if current_status:` taken: last_status = load_state(), as far as the
\* open.  os.path.exists, open(STATE_FILE, "r") and the fstat that sizes the
\* read buffer; an absent file and a failing open end the call with the
\* default.
LoadOpenWith(p, opens) ==
    /\ pc[p] = "probed"
    /\ Truthy(current_status[p])
    /\ \E ok \in opens :
        /\ TakeResult(p, [log EXCEPT !.loads = @ + 1,
                                     !.readFailed = file.exists /\ ~ok,
                                     !.absentAtLoad = ~file.exists,
                                     !.fileBefore = AbsentFile])
        /\ IF file.exists /\ ok
           THEN /\ reader' = [reader EXCEPT ![p] =
                                 [buf |-> <<>>, bufsize |-> BufSize(file)]]
                /\ pc' = [pc EXCEPT ![p] = "load_read"]
                /\ UNCHANGED <<last_status, escaped>>
           ELSE Loaded(p, load_state(IF file.exists THEN FileWith(<<>>)
                                                    ELSE AbsentFile, ok))
    /\ UNCHANGED <<file, current_status, writer, result, cand, scope,
                   shortCalls, hist>>

LoadOpen(p) == LoadOpenWith(p, BOOLEAN)

\* One read() system call of f.read(); the one that returns nothing ends
\* the read, and strip() of the text read so far is the answer.  Another
\* invocation can change the file between two of them.
LoadReadWith(p, reads) ==
    /\ pc[p] = "load_read"
    /\ \E ok \in reads :
        LET sofar == reader[p].buf
            size  == IF Len(sofar) >= reader[p].bufsize
                     THEN new_buffersize(Len(sofar))
                     ELSE reader[p].bufsize
            chunk == os_read(file, Len(sofar), size - Len(sofar))
        IN  /\ Note(p, [log EXCEPT
                           !.readFailed = ~ok,
                           !.readAfter = IF sofar = <<>>
                                         THEN hist.lastWrite ELSE @])
            /\ IF ok /\ chunk /= <<>>
               THEN /\ reader' = [reader EXCEPT ![p] =
                                     [buf |-> sofar \o chunk, bufsize |-> size]]
                    /\ UNCHANGED <<pc, last_status, escaped>>
               ELSE Loaded(p, load_state(FileWith(sofar), ok))
    /\ UNCHANGED <<file, current_status, writer, result, probeLocals, watch, scope, shortCalls,
                   hist>>

LoadRead(p) == LoadReadWith(p, BOOLEAN)

\* `else:` the probe gave nothing; the state is left alone.
LeaveUnchanged(p) ==
    /\ pc[p] = "probed"
    /\ ~Truthy(current_status[p])
    /\ pc' = [pc EXCEPT ![p] = "return"]
    /\ TakeResult(p, log)
    /\ UNCHANGED <<file, current_status, orchLocals, cand, scope, shortCalls,
                   hist>>

\* The invocation has passed the transition test in its current cycle and
\* has not opened the state file yet.
AboutToSave(q) ==
    /\ pc[q] = "save"
    /\ ShouldNotify(last_status[q], current_status[q])

\* The transition out-of-stock -> in-stock: send_email_notification(...).
NotifyWith(p, sends) ==
    /\ pc[p] = "decide"
    /\ ShouldNotify(last_status[p], current_status[p])
    /\ \E o \in sends :
        LET r == send_email_notification(o) IN
        /\ log' =
             IF watch = p
             THEN [log EXCEPT
                     !.sends = @ + 1,
                     !.sendOutcome = o,
                     !.prevNotified = hist.notified,
                     !.outSincePrev = hist.outSince,
                     !.openFailedPrev = hist.openFailed,
                     !.overlapSincePrev = hist.overlapSince,
                     !.doubled = @ \/ (/\ file = FileWith(OutOfStock)
                                       /\ \E q \in Procs \ {p} : AboutToSave(q))]
             ELSE IF watch /= 0
                  THEN [log EXCEPT
                          !.doubled = @ \/ (/\ file = FileWith(OutOfStock)
                                            /\ log.sends = 1
                                            /\ AboutToSave(watch))]
             ELSE log
        /\ IF r.raised
           THEN Escape(p)
           ELSE /\ pc' = [pc EXCEPT ![p] = "save"]
                /\ UNCHANGED escaped
    /\ Remember([notified |-> TRUE, outSince |-> FALSE, openFailed |-> FALSE,
                 overlapSince |-> OthersRunning(p),
                 lastWrite |-> hist.lastWrite])
    /\ UNCHANGED <<file, current_status, last_status, reader, writer, result,
                   probeLocals,
                   watch, scope, shortCalls>>

Notify(p) == NotifyWith(p, SendOutcome)

\* No transition: nothing is sent.
SkipNotify(p) ==
    /\ pc[p] = "decide"
    /\ ~ShouldNotify(last_status[p], current_status[p])
    /\ pc' = [pc EXCEPT ![p] = "save"]
    /\ UNCHANGED <<file, current_status, orchLocals, probeLocals, watch, scope, shortCalls, log,
                   hist>>

\* save_state(current_status), first half: open(STATE_FILE, "w").  A
\* failure is caught by save_state's except clause and the call returns.
SaveOpenWith(p, opens) ==
    /\ pc[p] = "save"
    /\ \E ok \in opens :
        LET r == open_w(file, ok) IN
        /\ file' = r.file
        /\ Note(p, [log EXCEPT !.saves = @ + 1,
                               !.savedArg = current_status[p],
                               !.writeOutcome =
                                   IF r.raised THEN "open_fails" ELSE "opened",
                               !.keptFile = IF r.raised THEN file ELSE @])
        /\ Remember([hist EXCEPT
                        !.openFailed =
                            @ \/ (r.raised /\ ShouldNotify(last_status[p],
                                                           current_status[p])),
                        !.lastWrite = IF r.file /= file THEN p ELSE @])
        /\ pc' = [pc EXCEPT ![p] = IF r.raised THEN "return" ELSE "save_write"]
    /\ UNCHANGED <<current_status, orchLocals, probeLocals, watch, scope,
                   shortCalls>>

SaveOpen(p) == SaveOpenWith(p, BOOLEAN)

\* save_state(current_status), second half, is over: the with block was
\* left, with an exception (caught by save_state's except clause) or
\* without.
SaveDone(p, f, raised) ==
    /\ file' = f
    /\ writer' = [writer EXCEPT ![p] = 0]
    /\ pc' = [pc EXCEPT ![p] = "return"]
    /\ Note(p, [log EXCEPT !.writes = @ + 1,
                           !.writeOutcome =
                               IF raised THEN "write_fails" ELSE "ok"])
    /\ UNCHANGED shortCalls

\* save_state(current_status), second half: f.write(status) buffers the
\* text and the close of the with block flushes it with write() system
\* calls; other invocations act on the file between the calls.  A call
\* stores what is left, or stops short and the flush calls again for the
\* rest, or raises; after the first call that raised, the close of the
\* buffer flushes once more.  One step is one call that stores, or the
\* end of the with block: a call that raises stores nothing, so it is
\* taken together with what follows it.  short: the lengths at which a
\* call can stop short; outcomes: "ok", "write_fails" (a write() raises),
\* "close_fails" (close() raises after the flush).
SaveWriteWith(p, short, outcomes) ==
    /\ pc[p] = "save_write"
    /\ LET b == f_write(current_status[p])
           pos == writer[p]
           rem == Len(b.pending) - pos
           rest == os_write(file, b.pending, pos, rem)
       IN IF b.raised
          THEN SaveDone(p, file, TRUE)
          ELSE \/ \E n \in short :
                   /\ n < rem
                   /\ shortCalls < MaxShortCalls
                   /\ shortCalls' = shortCalls + 1
                   /\ file' = os_write(file, b.pending, pos, n)
                   /\ writer' = [writer EXCEPT ![p] = pos + n]
                   /\ Note(p, [log EXCEPT !.split = TRUE])
                   /\ UNCHANGED pc
               \/ \E o \in outcomes :
                   CASE o = "ok" ->
                          SaveDone(p, rest, f_close(FALSE, TRUE).raised)
                     [] o = "close_fails" ->
                          SaveDone(p, rest, f_close(FALSE, FALSE).raised)
                     [] o = "write_fails" ->
                          \E again \in BOOLEAN :
                              SaveDone(p, IF again THEN file ELSE rest,
                                       f_close(TRUE, TRUE).raised)
    /\ Remember([hist EXCEPT !.lastWrite = IF file' /= file THEN p ELSE @])
    /\ UNCHANGED <<current_status, last_status, reader, result, escaped,
                   probeLocals, watch, scope>>

SaveWrite(p) ==
    SaveWriteWith(p, 1..MaxShort, {"ok", "write_fails", "close_fails"})

\* return "Function executed successfully." / the top-level except clause.
Return(p) ==
    /\ pc[p] = "return"
    /\ result' = [result EXCEPT ![p] =
                    IF escaped[p] THEN FailureMsg ELSE SuccessMsg]
    /\ pc' = [pc EXCEPT ![p] = "returned"]
    /\ UNCHANGED <<file, current_status, last_status, reader, writer, escaped,
                   probeLocals,
                   watch, scope, shortCalls, log, hist>>

\* serve.check wraps the string in a JSON response; the frame is gone.
Respond(p) ==
    /\ pc[p] = "returned"
    /\ pc' = [pc EXCEPT ![p] = "idle"]
    /\ current_status' = [current_status EXCEPT ![p] = None]
    /\ last_status' = [last_status EXCEPT ![p] = <<>>]
    /\ reader' = [reader EXCEPT ![p] = NoReader]
    /\ writer' = [writer EXCEPT ![p] = 0]
    /\ result' = [result EXCEPT ![p] = NoResult]
    /\ escaped' = [escaped EXCEPT ![p] = FALSE]
    /\ exc' = [exc EXCEPT ![p] = "none"]
    /\ ret' = [ret EXCEPT ![p] = None]
    /\ browser' = [browser EXCEPT ![p] = "none"]
    /\ cand' = [cand EXCEPT ![p] = 0]
    /\ watch' = IF watch = p THEN 0 ELSE watch
    /\ log' = IF watch = p THEN EmptyLog
              ELSE [log EXCEPT !.laterProbes = @ \ {p},
                               !.readAfter = IF @ = p THEN 0 ELSE @]
    /\ hist' = [hist EXCEPT !.lastWrite = IF @ = p THEN 0 ELSE @]
    /\ UNCHANGED <<file, scope, shortCalls>>

\* The whole program: the /check route and the orchestrator with every
\* outcome of the file and SMTP operations, the probe as one step.
Next ==
    \E p \in Procs :
        \/ Check(p)
        \/ get_stock_status_playwright(p)
        \/ LoadOpen(p)
        \/ LoadRead(p)
        \/ LeaveUnchanged(p)
        \/ Notify(p)
        \/ SkipNotify(p)
        \/ SaveOpen(p)
        \/ SaveWrite(p)
        \/ Return(p)
        \/ Respond(p)

Spec == Init /\ [][Next]_vars

\* The same program with the probe taken statement by statement.  The
\* file and SMTP operations succeed here; their failures are in Spec.
NextProbe ==
    \E p \in Procs :
        \/ Check(p)
        \/ Launch(p)
        \/ NewPage(p)
        \/ Goto(p)
        \/ ModalHeading(p)
        \/ TryCandidate(p)
        \/ GetMyLocation(p)
        \/ GraceWait(p)
        \/ EnterPincode(p)
        \/ Classify(p)
        \/ ExceptPWTimeout(p)
        \/ ExceptException(p)
        \/ Finally(p)
        \/ LoadOpenWith(p, {TRUE})
        \/ LoadReadWith(p, {TRUE})
        \/ LeaveUnchanged(p)
        \/ NotifyWith(p, {"ok"})
        \/ SkipNotify(p)
        \/ SaveOpenWith(p, {TRUE})
        \/ SaveWriteWith(p, {}, {"ok"})
        \/ Return(p)
        \/ Respond(p)

SpecProbe == InitProbe /\ [][NextProbe]_vars

TypeOK ==
    /\ file.exists \in BOOLEAN
    /\ Len(file.content) <= Len(OutOfStock)
    /\ ~file.exists => file.content = <<>>
    /\ watch \in Procs \cup {0}
    /\ scope \in {"cycle", "probe"}
    /\ shortCalls \in 0..MaxShortCalls
    /\ hist.lastWrite \in Procs \cup {0}
    /\ \A p \in Procs :
        /\ current_status[p] \in {None, Str(InStock), Str(OutOfStock)}
        /\ browser[p] \in {"none", "launched", "closed"}
        /\ exc[p] \in {"none", "PWTimeout", "Exception"}
        /\ cand[p] \in 0..(NumCandidates + 1)
        /\ result[p] \in {NoResult, SuccessMsg, FailureMsg}
        /\ Len(reader[p].buf) <= Len(OutOfStock)
        /\ pc[p] /= "load_read" => reader[p] = NoReader
        /\ writer[p] \in 0..Len(OutOfStock)
        /\ pc[p] /= "save_write" => writer[p] = 0
    /\ Len(log.attempts) <= NumCandidates + 1
    /\ Len(log.clicks) <= Len(log.attempts)
    /\ watch = 0 => log = EmptyLog


\* ---------------------------------------------------------------- claims
Labels == {InStock, OutOfStock}

\* The invocation has run to its return statement.
CycleOver(p) == pc[p] = "returned"

\* The probe of the watched cycle returned one of the two labels.
Probed(p) == log.probe = "returned" /\ current_status[p] /= None

\* Text s begins with text t.
BeginsWith(s, t) == Len(s) >= Len(t) /\ SubSeq(s, 1, Len(t)) = t

\* C1: in a finished cycle send_email_notification was called (once) if and
\* only if the probe returned in-stock and load_state returned out-of-stock;
\* a cycle whose probe failed calls it not at all.
C1_NotifyIffTransition ==
    \A p \in Procs : watch = p /\ CycleOver(p) =>
        /\ log.sends \in {0, 1}
        /\ log.sends = 1 <=>
              /\ Probed(p)
              /\ log.loads = 1
              /\ last_status[p] = OutOfStock
              /\ current_status[p] = Str(InStock)
        /\ current_status[p] = None => log.sends = 0

C1_Witness ==
    \E p \in Procs :
        /\ watch = p
        /\ CycleOver(p)
        /\ log.sends = 1
        /\ last_status[p] = OutOfStock
        /\ current_status[p] = Str(InStock)

\* C2 as stated: after a cycle whose probe returned a label the file holds
\* that label, whatever the outcome of the send and of the write.  Taken
\* for a cycle that ran with no other invocation in progress.
C2_AsStated ==
    \A p \in Procs : watch = p /\ CycleOver(p) /\ Probed(p) /\ log.alone =>
        file = FileWith(current_status[p].s)

\* What save_state left in the file of a cycle that ran with no other
\* invocation in progress: the label when nothing was raised; the file as
\* it was when the open failed; the label, a proper prefix of it or the
\* empty text when the write or the close failed.
SavedOrExcused(p) ==
    /\ log.writeOutcome \in {"ok", "open_fails", "write_fails"}
    /\ log.writeOutcome = "ok" => file = FileWith(current_status[p].s)
    /\ log.writeOutcome = "open_fails" => file = log.keptFile
    /\ log.writeOutcome = "write_fails" =>
          /\ file.exists
          /\ BeginsWith(current_status[p].s, file.content)

\* C2 amended: after a cycle whose probe returned a label, save_state has
\* been called once with that label, whatever the outcome of the send.
\* With no other invocation in progress during the cycle, the file holds
\* the label when save_state raised nothing internally; it is left as it
\* was when the open failed; it holds the label, a proper prefix of it or
\* the empty text when the write or the close failed.
C2_PersistedWhenWritten ==
    \A p \in Procs : watch = p /\ CycleOver(p) /\ Probed(p) =>
        /\ log.saves = 1
        /\ log.savedArg = current_status[p]
        /\ log.alone => SavedOrExcused(p)

C2_Witness ==
    \E p \in Procs :
        /\ watch = p
        /\ CycleOver(p)
        /\ current_status[p] = Str(InStock)
        /\ log.sends = 1
        /\ log.sendOutcome = "login"
        /\ log.writeOutcome = "ok"
        /\ log.alone
        /\ file = FileWith(InStock)

\* C3: a cycle whose probe returned None calls neither load_state nor
\* send_email_notification nor save_state and neither opens nor writes the
\* file; with no other invocation in progress the file is what it was
\* before the cycle.
C3_FailureLeavesState ==
    \A p \in Procs :
        /\ watch = p
        /\ log.probe = "returned" /\ current_status[p] = None
        /\ pc[p] \in {"return", "returned"}
        => /\ log.loads = 0
           /\ log.sends = 0
           /\ log.saves = 0
           /\ log.writes = 0
           /\ log.alone => file = log.fileBefore

C3_Witness ==
    \E p \in Procs :
        /\ watch = p
        /\ CycleOver(p)
        /\ log.probe = "returned"
        /\ current_status[p] = None
        /\ log.failedAt = "probe"
        /\ log.alone
        /\ log.fileBefore = FileWith(InStock)
        /\ file = FileWith(InStock)

\* C4: the file, when present, holds exactly 'in-stock' or 'out-of-stock':
\* never the empty text, never anything else.
C4_FileHoldsLabel ==
    file.exists => file.content \in Labels

\* C5 as stated: a cycle that notifies after an earlier notification, with
\* no two invocations in progress at once since, has a cycle whose probe
\* returned out-of-stock between the two.
C5_AsStated ==
    \A p \in Procs :
        /\ watch = p
        /\ log.sends = 1
        /\ log.prevNotified
        /\ ~log.overlapSincePrev
        => log.outSincePrev

\* C5 amended: a cycle that notifies after an earlier notification, with no
\* two invocations in progress at once since, has a cycle whose probe
\* returned out-of-stock between the two, unless save_state's open of the
\* state file failed in the earlier of the two cycles, or the read of the
\* state file failed in the later one.
C5_NotifyOncePerTransition ==
    \A p \in Procs :
        /\ watch = p
        /\ log.sends = 1
        /\ log.prevNotified
        /\ ~log.overlapSincePrev
        => \/ log.outSincePrev
           \/ log.openFailedPrev
           \/ log.readFailed

C5_Witness ==
    \E p \in Procs :
        /\ watch = p
        /\ log.sends = 1
        /\ log.prevNotified
        /\ ~log.overlapSincePrev
        /\ log.outSincePrev
        /\ ~log.openFailedPrev
        /\ ~log.readFailed

\* C6 as stated: a cycle that found the file absent or failed to read it,
\* and whose probe returned in-stock, ends with 'in-stock' in the file.
\* Taken for a cycle that ran with no other invocation in progress.
C6_AsStated ==
    \A p \in Procs :
        /\ watch = p
        /\ log.absentAtLoad \/ log.readFailed
        /\ CycleOver(p)
        /\ current_status[p] = Str(InStock)
        /\ log.alone
        => file = FileWith(InStock)

\* C6 amended: when the file is absent or its read fails, load_state
\* returns 'out-of-stock' and raises nothing; a cycle whose probe returned
\* in-stock then notifies, calls save_state with 'in-stock' and returns
\* the success string.  With no other invocation in progress the file
\* then holds 'in-stock' when save_state raised nothing internally; it is
\* left absent or as it was when the open failed; it holds 'in-stock', a
\* proper prefix of it or the empty text when the write or the close
\* failed.
C6_DefaultOnMissingOrUnreadable ==
    \A p \in Procs :
        watch = p /\ (log.absentAtLoad \/ log.readFailed) =>
            /\ log.loads = 1
            /\ pc[p] /= "load_read"
            /\ last_status[p] = OutOfStock
            /\ ~escaped[p]
            /\ CycleOver(p) /\ current_status[p] = Str(InStock) =>
                  /\ log.sends = 1
                  /\ log.saves = 1
                  /\ log.savedArg = Str(InStock)
                  /\ log.alone =>
                        /\ SavedOrExcused(p)
                        /\ log.writeOutcome = "open_fails" /\ log.absentAtLoad
                              => ~file.exists
                  /\ result[p] = SuccessMsg

C6_Witness ==
    \E p \in Procs :
        /\ watch = p
        /\ CycleOver(p)
        /\ log.absentAtLoad
        /\ log.alone
        /\ current_status[p] = Str(InStock)
        /\ log.sends = 1
        /\ file = FileWith(InStock)
        /\ result[p] = SuccessMsg

\* C7: load_state returns one of the two labels, so that a file with
\* malformed content reads as 'out-of-stock' and an in-stock probe result
\* that follows is notified.
C7_LoadReturnsLabel ==
    \A p \in Procs :
        watch = p /\ log.loads = 1 /\ pc[p] /= "load_read" /\ ~escaped[p] =>
            /\ last_status[p] \in Labels
            /\ CycleOver(p) /\ current_status[p] = Str(InStock)
               /\ last_status[p] /= InStock
               => log.sends = 1

\* C8: a cycle whose send failed at any step still calls save_state with
\* the probe result, nothing is raised into the orchestrator, and the
\* success string is returned.
C8_SendFailureStillSaves ==
    \A p \in Procs :
        watch = p /\ log.sends = 1 /\ log.sendOutcome /= "ok" =>
            /\ ~escaped[p]
            /\ pc[p] \in {"save", "save_write", "return", "returned"}
            /\ pc[p] \in {"save_write", "return", "returned"} =>
                  /\ log.saves = 1
                  /\ log.savedArg = current_status[p]
            /\ CycleOver(p) => result[p] = SuccessMsg

C8_Witness ==
    \E p \in Procs :
        /\ watch = p
        /\ CycleOver(p)
        /\ log.sends = 1
        /\ log.sendOutcome = "starttls"
        /\ log.saves = 1
        /\ log.writeOutcome = "ok"
        /\ file = FileWith(InStock)
        /\ result[p] = SuccessMsg

\* C9: a finished invocation has returned one of the two strings; the
\* failure string only when an exception reached the top-level except
\* clause; the success string whenever the probe failed (a timeout
\* included) and whenever the cycle ran through save_state.
C9_AlwaysReturnsString ==
    \A p \in Procs : CycleOver(p) =>
        /\ result[p] \in {SuccessMsg, FailureMsg}
        /\ result[p] = FailureMsg => escaped[p]
        /\ watch = p =>
              /\ log.failedAt /= "none" => result[p] = SuccessMsg
              /\ log.probe = "returned" /\ current_status[p] = None
                    => result[p] = SuccessMsg
              /\ log.saves = 1 => result[p] = SuccessMsg

C9_Witness ==
    \E p \in Procs :
        /\ watch = p
        /\ CycleOver(p)
        /\ log.failedAt = "probe"
        /\ current_status[p] = None
        /\ log.loads = 0
        /\ result[p] = SuccessMsg

\* C10 as stated: a call in which any automation step failed, a click or
\* a wait inside _open_pincode_modal included, returns None.
C10_AsStated ==
    \A p \in Procs :
        /\ watch = p
        /\ log.probe = "returned"
        /\ \/ log.failedAt /= "none"
           \/ log.swallowed
           \/ log.closeFailed
           \/ log.screenshot = "failed"
        => current_status[p] = None

\* C10 amended: get_stock_status_playwright never raises into its caller;
\* what it returns is 'in-stock', 'out-of-stock' or None; and it returns
\* None whenever a failure left one of its statements: launch, page
\* creation, navigation, modal opening outside its two try blocks, pincode
\* entry, a classification query, the screenshot, or closing the browser.
\* A click or a wait that fails inside a try block of _open_pincode_modal
\* is swallowed there and the call goes on to a label all the same.
C10_ProbeNeverRaises ==
    \A p \in Procs :
        watch = p /\ log.probe /= "running" =>
            /\ log.probe = "returned"
            /\ current_status[p] \in {Str(InStock), Str(OutOfStock), None}
            /\ (\/ log.failedAt /= "none"
                \/ log.closeFailed
                \/ log.screenshot = "failed") => current_status[p] = None

C10_Witness ==
    \E p \in Procs :
        /\ watch = p
        /\ log.probe = "returned"
        /\ ret[p] = Str(InStock)
        /\ log.closeFailed
        /\ current_status[p] = None

\* The positive signal: an Add to Cart button that exists, is visible and
\* is enabled.
AddToCartReady(page) == page.atcCount /\ page.atcVisible /\ page.atcEnabled

\* C11: when no statement of the probe failed, the probe returns
\* 'in-stock' if and only if no Sold Out alert is visible and the Add to
\* Cart button exists, is visible and is enabled; in every other
\* combination of the signals it returns 'out-of-stock'.
C11_ClassificationOrder ==
    \A p \in Procs :
        /\ watch = p
        /\ log.probe = "returned"
        /\ log.failedAt = "none"
        => /\ log.page.seen
           /\ current_status[p] \in {Str(InStock), Str(OutOfStock)}
           /\ current_status[p] = Str(InStock) <=>
                 ~log.page.soldOut /\ AddToCartReady(log.page)

C11_Witness ==
    \E p \in Procs :
        /\ watch = p
        /\ log.probe = "returned"
        /\ log.failedAt = "none"
        /\ log.page.soldOut
        /\ AddToCartReady(log.page)
        /\ current_status[p] = Str(OutOfStock)

\* C12 as stated: a call in which a bounded wait timed out, the 5 s wait
\* for the modal heading included, returns None.
C12_AsStated ==
    \A p \in Procs :
        /\ watch = p
        /\ log.probe = "returned"
        /\ log.failKind = "PWTimeout" \/ log.headingWaitTimedOut
        => current_status[p] = None

\* C12 amended: a timeout that leaves a statement of the page flow
\* (navigation, _open_pincode_modal outside its try blocks, the 10 s wait
\* and the network-idle wait of _enter_pincode, a classification query)
\* ends the call with None and no completed classification.  A timeout of
\* the 5 s wait for the modal heading is not among them: it is swallowed
\* and the next label is tried.
C12_TimeoutYieldsNone ==
    \A p \in Procs :
        /\ watch = p
        /\ log.probe = "returned"
        /\ log.failKind = "PWTimeout"
        => /\ current_status[p] = None
           /\ ~log.page.seen

C12_Witness ==
    \E p \in Procs :
        /\ watch = p
        /\ log.probe = "returned"
        /\ log.failKind = "PWTimeout"
        /\ log.failedAt = "enter_pincode"
        /\ log.headingWaitTimedOut
        /\ current_status[p] = None

\* browser.close() has been called on the browser of the watched call
\* (whether or not it returned normally).
CloseCalled(p) == browser[p] = "closed" \/ log.closeFailed

\* C13: once the probe has returned, a browser it launched has had
\* browser.close() called on it, on every path: a classified result, a
\* timeout, another page-flow error, a failure of page creation.
C13_BrowserClosed ==
    \A p \in Procs :
        watch = p /\ log.probe /= "running" /\ browser[p] /= "none"
            => CloseCalled(p)

\* The invocation has passed the transition test in its current cycle.
HasNotified(q) ==
    /\ pc[q] \in {"save", "save_write", "return", "returned"}
    /\ ShouldNotify(last_status[q], current_status[q])

\* C14: the state file is read and later written with nothing held in
\* between.  Two overlapping cycles that both notify are cycles in which
\* neither read what the other had written (unless the read failed); and
\* while a cycle is the last to have written, successfully and with a
\* single write() call, the file begins with that cycle's result,
\* whichever probe finished first.
C14_UnsynchronizedReadThenWrite ==
    \A p, q \in Procs : p /= q /\ watch = p =>
        /\ log.sends = 1 /\ log.readAfter = q /\ HasNotified(q)
              => log.readFailed
        /\ log.writeOutcome = "ok" /\ ~log.split /\ hist.lastWrite = p
              => BeginsWith(file.content, current_status[p].s)

\* Both interleavings of the claim in one behaviour: the watched cycle and
\* another both passed the transition test on 'out-of-stock' before either
\* opened the file (two notifications for one transition); and now two
\* overlapping cycles have finished with the file holding the result of
\* the watched cycle, whose probe returned first, not the different result
\* of the probe that returned after it.
C14_Witness ==
    \E p, q \in Procs :
        /\ p /= q
        /\ watch = p
        /\ log.doubled
        /\ CycleOver(p) /\ CycleOver(q)
        /\ q \in log.laterProbes
        /\ current_status[p] = Str(InStock)
        /\ current_status[q] = Str(OutOfStock)
        /\ hist.lastWrite = p
        /\ file = FileWith(InStock)

\* C15: within one cycle the probe returns first, then load_state is
\* called once, then the notification (if the transition test holds) is
\* attempted and has finished, and only then save_state is called once and
\* writes once: nothing is written before the notification decision, and
\* nothing is read after the write.
C15_StepOrder ==
    \A p \in Procs : watch = p =>
        /\ log.loads \in {0, 1}
        /\ log.sends \in {0, 1}
        /\ log.saves \in {0, 1}
        /\ log.writes \in {0, 1}
        /\ log.probe = "running" =>
              log.loads = 0 /\ log.sends = 0 /\ log.saves = 0
        /\ pc[p] = "probed" =>
              log.loads = 0 /\ log.sends = 0 /\ log.saves = 0
        /\ pc[p] \in {"load_read", "decide"} =>
              log.loads = 1 /\ log.sends = 0 /\ log.saves = 0
        /\ pc[p] = "save" =>
              /\ log.loads = 1 /\ log.saves = 0
              /\ log.sends = 1 <=> ShouldNotify(last_status[p], current_status[p])
        /\ pc[p] = "save_write" =>
              log.loads = 1 /\ log.saves = 1 /\ log.writes = 0
        /\ log.sends = 1 => log.loads = 1
        /\ log.saves = 1 =>
              log.loads = 1 /\ pc[p] \in {"save_write", "return", "returned"}
        /\ log.writes = 1 =>
              log.saves = 1 /\ pc[p] \in {"return", "returned"}

C15_Witness ==
    \E p \in Procs :
        /\ watch = p
        /\ CycleOver(p)
        /\ log.probe = "returned"
        /\ log.loads = 1
        /\ log.sends = 1
        /\ log.saves = 1
        /\ log.writes = 1
        /\ ~log.alone

\* The labels on which click() was called, and the labels whose click()
\* returned, in _open_pincode_modal's current call.
LabelsAttempted == {log.attempts[i] : i \in 1..Len(log.attempts)} \ {0}

LabelsClicked == {log.clicks[i] : i \in 1..Len(log.clicks)} \ {0}

LocationAttempted == \E i \in 1..Len(log.attempts) : log.attempts[i] = 0

\* _open_pincode_modal found the heading already visible and returned.
HeadingAlreadyVisible(p) == pc[p] = "enter_pincode" /\ cand[p] = 0

\* _open_pincode_modal returned from inside the loop, at label cand[p].
OpenedByLabel(p) == pc[p] = "enter_pincode" /\ cand[p] \in 1..NumCandidates

\* C16 as stated: only the first matching label is clicked, and "get my
\* location" is attempted only if no label matched an element; nothing is
\* clicked when the heading is already visible.
C16_AsStated ==
    \A p \in Procs : watch = p =>
        /\ Cardinality(LabelsAttempted) <= 1
        /\ LocationAttempted => LabelsAttempted = {}
        /\ HeadingAlreadyVisible(p) => log.attempts = <<>>

\* C16 (amended): the labels are tried in list order and every label that
\* matches is clicked until one click and the heading wait that follows it
\* both succeed, which ends the function; "get my location" is attempted
\* only after every label was passed without such a success, whether or
\* not some labels matched; nothing is clicked when the heading is already
\* visible.
C16_ClickOrder ==
    \A p \in Procs : watch = p =>
        /\ \A i, j \in 1..Len(log.attempts) :
              i < j => /\ log.attempts[i] /= 0
                       /\ \/ log.attempts[j] = 0 /\ j = Len(log.attempts)
                          \/ log.attempts[i] < log.attempts[j]
        /\ LabelsAttempted \subseteq 1..NumCandidates
        /\ LabelsClicked \subseteq LabelsAttempted
        /\ pc[p] = "candidates" => \A l \in LabelsAttempted : l < cand[p]
        /\ OpenedByLabel(p) =>
              /\ log.attempts /= <<>>
              /\ log.attempts[Len(log.attempts)] = cand[p]
              /\ cand[p] \in LabelsClicked
        /\ LocationAttempted => cand[p] = NumCandidates + 1
        /\ HeadingAlreadyVisible(p) => log.attempts = <<>>
        /\ cand[p] = 0 => log.attempts = <<>>

\* Two labels were clicked in one call, the second one opened the modal.
C16_Witness ==
    \E p \in Procs :
        /\ watch = p
        /\ OpenedByLabel(p)
        /\ Cardinality(LabelsAttempted) >= 2
        /\ cand[p] \in LabelsClicked
====
